---- MODULE Spec2Model ----
(***************************************************************************)
(* Model of the 2D BSP collision engine of venture (src/bsp/bsp.go,        *)
(* src/bsp/cgal.go): the builder (per-polygon half-space chains, OR-merge  *)
(* into a flat node array) and the two queries (PointInBSP,                *)
(* LineTraceBSPNode).                                                      *)
(*                                                                         *)
(* The Go code computes in float32.  A float32 value is modelled exactly,  *)
(* as a pair <<m, e>> standing for m * 2^e with either m = 0 (and e = 0)   *)
(* or 2^23 <= |m| < 2^24, and every arithmetic operation rounds to nearest *)
(* (ties to even) as IEEE-754 binary32 does.  Products are not fused with  *)
(* additions (the repository builds for linux/amd64, where the Go compiler *)
(* emits separate multiply and add).  Values stay in the normal range: no  *)
(* overflow, underflow, infinity or NaN arises from the bounded inputs.    *)
(***************************************************************************)
EXTENDS Integers, Sequences, FiniteSets, TLC

(***************************************************************************)
(* float32 arithmetic                                                      *)
(***************************************************************************)
Pow2(n) == 2^n

P12 == 2^12

P23 == 2^23

P24 == 2^24

Abs(x) == IF x < 0 THEN -x ELSE x

Sgn(x) == IF x < 0 THEN -1 ELSE IF x > 0 THEN 1 ELSE 0

\* number of bits of a positive integer below 2^31 (binary search)
BitLen(M) ==
  IF M < 65536 THEN IF M < 256 THEN IF M < 16 THEN IF M < 4 THEN IF M < 2 THEN 1
                      ELSE 2
                 ELSE IF M < 8 THEN 3
                      ELSE 4
            ELSE IF M < 64 THEN IF M < 32 THEN 5
                      ELSE 6
                 ELSE IF M < 128 THEN 7
                      ELSE 8
       ELSE IF M < 4096 THEN IF M < 1024 THEN IF M < 512 THEN 9
                      ELSE 10
                 ELSE IF M < 2048 THEN 11
                      ELSE 12
            ELSE IF M < 16384 THEN IF M < 8192 THEN 13
                      ELSE 14
                 ELSE IF M < 32768 THEN 15
                      ELSE 16
  ELSE IF M < 16777216 THEN IF M < 1048576 THEN IF M < 262144 THEN IF M < 131072 THEN 17
                      ELSE 18
                 ELSE IF M < 524288 THEN 19
                      ELSE 20
            ELSE IF M < 4194304 THEN IF M < 2097152 THEN 21
                      ELSE 22
                 ELSE IF M < 8388608 THEN 23
                      ELSE 24
       ELSE IF M < 268435456 THEN IF M < 67108864 THEN IF M < 33554432 THEN 25
                      ELSE 26
                 ELSE IF M < 134217728 THEN 27
                      ELSE 28
            ELSE IF M < 1073741824 THEN IF M < 536870912 THEN 29
                      ELSE 30
                 ELSE 31

FZero == <<0, 0>>

\* sign * M * 2^e, M > 0, rounded to 24 significant bits, ties to even
RoundF32(sign, M, e) ==
  LET carry(m, s) ==
        IF m = P24 THEN <<sign * P23, e + s + 1>> ELSE <<sign * m, e + s>>
      shift(s, q, r, half) ==
        carry(IF r > half \/ (r = half /\ q % 2 = 1) THEN q + 1 ELSE q, s)
      round(L) ==
        IF L <= 24 THEN <<sign * M * Pow2(24 - L), e - (24 - L)>>
        ELSE shift(L - 24, M \div Pow2(L - 24), M % Pow2(L - 24), Pow2(L - 25))
  IN round(BitLen(M))

FromInt(n) == IF n = 0 THEN FZero ELSE RoundF32(Sgn(n), Abs(n), 0)

\* n * 2^e for an integer n: the float32 nearest to a dyadic literal
Dyadic(n, e) == IF n = 0 THEN FZero ELSE RoundF32(Sgn(n), Abs(n), e)

FNeg(a) == <<-a[1], a[2]>>

\* a < b
FLess(a, b) ==
  IF a[1] = 0 THEN b[1] > 0
  ELSE IF b[1] = 0 THEN a[1] < 0
  ELSE IF (a[1] < 0) # (b[1] < 0) THEN a[1] < 0
  ELSE IF a[1] > 0 THEN a[2] < b[2] \/ (a[2] = b[2] /\ a[1] < b[1])
  ELSE a[2] > b[2] \/ (a[2] = b[2] /\ a[1] < b[1])

FGreater(a, b) == FLess(b, a)

FLessEq(a, b) == ~FLess(b, a)

\* a + b: the operand of smaller exponent is shifted right under four guard
\* bits, the bits shifted out are kept as a sticky bit
FAdd(a, b) ==
  IF a[1] = 0 THEN b
  ELSE IF b[1] = 0 THEN a
  ELSE LET hi == IF a[2] >= b[2] THEN a ELSE b
           lo == IF a[2] >= b[2] THEN b ELSE a
           diff == hi[2] - lo[2]
           A == hi[1] * 16
           B0 == Abs(lo[1]) * 16
           sticky == IF diff > 28 THEN TRUE ELSE B0 % Pow2(diff) # 0
           jam(Bq) == IF sticky /\ Bq % 2 = 0 THEN Bq + 1 ELSE Bq
           sum(S) == IF S = 0 THEN FZero ELSE RoundF32(Sgn(S), Abs(S), hi[2] - 4)
       IN sum(A + Sgn(lo[1]) * jam(IF diff > 28 THEN 0 ELSE B0 \div Pow2(diff)))

FSub(a, b) == FAdd(a, FNeg(b))

\* a * b: the 48-bit product of the mantissas is formed from 12-bit halves
FMul(a, b) ==
  IF a[1] = 0 \/ b[1] = 0 THEN FZero
  ELSE LET ma == Abs(a[1])
           mb == Abs(b[1])
           a1 == ma \div P12
           a0 == ma % P12
           b1 == mb \div P12
           b0 == mb % P12
           \* product = hi * 2^24 + lo; keep 6 more bits of lo and a sticky bit
           jam(hi, lo) ==
             2 * (hi * 64 + lo \div Pow2(18)) + (IF lo % Pow2(18) # 0 THEN 1 ELSE 0)
           low(cross, losum) ==
             jam(a1 * b1 + cross \div P12 + losum \div P24, losum % P24)
           mid(cross) == low(cross, (cross % P12) * P12 + a0 * b0)
       IN RoundF32(Sgn(a[1]) * Sgn(b[1]), mid(a1 * b0 + a0 * b1),
                   a[2] + b[2] + 24 - 7)

\* a / b (b # 0): quotient of the mantissas to 28 fractional bits, 7 bits at
\* a time, and a sticky bit for the remainder
FDiv(a, b) ==
  IF a[1] = 0 THEN FZero
  ELSE LET ma == Abs(a[1])
           mb == Abs(b[1])
           \* Q the quotient so far, r the remainder
           jam(Q, r) == 2 * Q + (IF r # 0 THEN 1 ELSE 0)
           d4(Q, r) == jam(Q * 128 + (r * 128) \div mb, (r * 128) % mb)
           d3(Q, r) == d4(Q * 128 + (r * 128) \div mb, (r * 128) % mb)
           d2(Q, r) == d3(Q * 128 + (r * 128) \div mb, (r * 128) % mb)
           d1(Q, r) == d2(Q * 128 + (r * 128) \div mb, (r * 128) % mb)
       IN RoundF32(Sgn(a[1]) * Sgn(b[1]), d1(ma \div mb, ma % mb),
                   a[2] - b[2] - 29)

\* digit-by-digit square root, two pairs of bits (one base-4 digit d of the
\* root) a step: R is the root of the pairs consumed so far, rem the
\* remainder; the pairs are those of M (13 pairs) and then 13 pairs of zeros
RECURSIVE SqrtStep(_, _, _, _)
SqrtStep(M, R, rem, i) ==
  IF i = 13 THEN <<R, rem>>
  ELSE LET fits(cur, d) == d * (8 * R + d) <= cur
           digit(cur) ==
             CHOOSE d \in 0..3 : fits(cur, d) /\ (d = 3 \/ ~fits(cur, d + 1))
           next(cur, d) == SqrtStep(M, 4 * R + d, cur - d * (8 * R + d), i + 1)
           step(cur) == next(cur, digit(cur))
       IN step(rem * 16 + (IF i < 6 THEN (M \div Pow2(22 - 4 * i)) % 16
                           ELSE IF i = 6 THEN (M % 4) * 4
                           ELSE 0))

\* float32(math.Sqrt(float64(a))), a >= 0: rounding the float64 root to
\* float32 gives the correctly rounded float32 root (53 >= 2*24 + 2)
FSqrt(a) ==
  IF a[1] = 0 THEN FZero
  ELSE LET odd == a[2] % 2 # 0
           M == IF odd THEN 2 * a[1] ELSE a[1]
           E == IF odd THEN a[2] - 1 ELSE a[2]
           jam(res) == 2 * res[1] + (IF res[2] # 0 THEN 1 ELSE 0)
       IN RoundF32(1, jam(SqrtStep(M, 0, 0, 0)), E \div 2 - 14)

F1 == <<P23, -23>>

(***************************************************************************)
(* Geometry primitives (bsp.go:9-61)                                       *)
(***************************************************************************)
Pt(x, y) == [X |-> x, Y |-> y]

\* Vector2.Normalize
Normalize(v) ==
  LET scaled(length) ==
        IF length = FZero THEN Pt(FZero, FZero)
        ELSE Pt(FDiv(v.X, length), FDiv(v.Y, length))
  IN scaled(FSqrt(FAdd(FMul(v.X, v.X), FMul(v.Y, v.Y))))

\* Line.PointSide
PointSide(l, p) ==
  FSub(FAdd(FMul(l.Normal.X, p.X), FMul(l.Normal.Y, p.Y)), l.Distance)

\* float32(0.0001)
epsilon == <<13743895, -37>>

(***************************************************************************)
(* Flat node array (bsp.go:560-592).  Child indices are 0-based as in the  *)
(* Go slice; node i is nodes[i + 1].                                       *)
(***************************************************************************)
Leaf(isSolid) == [type |-> "Leaf", IsSolid |-> isSolid]

Split(nx, ny, d, f, b) ==
  [type |-> "Split", NormalX |-> nx, NormalY |-> ny, Distance |-> d,
   FrontIndex |-> f, BackIndex |-> b]

NodeAt(ns, i) == ns[i + 1]

addLeafNode(ns, isSolid) ==
  [nodes |-> Append(ns, Leaf(isSolid)), idx |-> Len(ns)]

\* the index taken after the append instead of before it
addSplitNodeIdxAfterAppend(ns, nx, ny, d, frontIdx, backIdx) ==
  [nodes |-> Append(ns, Split(nx, ny, d, frontIdx, backIdx)), idx |-> Len(ns) + 1]

addSplitNode(ns, nx, ny, d, frontIdx, backIdx) ==
  [nodes |-> Append(ns, Split(nx, ny, d, frontIdx, backIdx)), idx |-> Len(ns)]

(***************************************************************************)
(* Polygon utilities (bsp.go:198-239)                                      *)
(***************************************************************************)
RECURSIVE areaLoop(_, _, _)
areaLoop(vs, i, area) ==
  IF i > Len(vs) THEN area
  ELSE LET j == (i % Len(vs)) + 1
           a1 == FAdd(area, FMul(vs[i].X, vs[j].Y))
           a2 == FSub(a1, FMul(vs[j].X, vs[i].Y))
       IN areaLoop(vs, i + 1, a2)

signedArea(poly) ==
  IF Len(poly.Vertices) < 3 THEN FZero
  ELSE FDiv(areaLoop(poly.Vertices, 1, FZero), <<P23, -22>>)

isCCW(poly) == FGreater(signedArea(poly), FZero)

Reverse(s) == [i \in 1..Len(s) |-> s[Len(s) + 1 - i]]

ensureCCW(poly) ==
  IF isCCW(poly) THEN poly
  ELSE [Vertices |-> Reverse(poly.Vertices), IsSolid |-> poly.IsSolid]

(***************************************************************************)
(* Convex partitioner (cgal.go:21-73, cgal/partition.cpp:28-79).  The      *)
(* inputs of this model are simple convex polygons of nonzero area or have *)
(* fewer than 3 vertices: the C function returns the points of a convex    *)
(* polygon as they came.                                                   *)
(***************************************************************************)
\* a partitioner whose pieces are all marked solid
PartitionPolygonConvexAllSolid(polygon) ==
  IF Len(polygon.Vertices) < 3 THEN [err |-> TRUE, polys |-> <<>>]
  ELSE [err |-> FALSE,
        polys |-> <<[Vertices |-> polygon.Vertices, IsSolid |-> TRUE]>>]

PartitionPolygonConvex(polygon) ==
  IF Len(polygon.Vertices) < 3 THEN [err |-> TRUE, polys |-> <<>>]
  ELSE [err |-> FALSE,
        polys |-> <<[Vertices |-> polygon.Vertices, IsSolid |-> polygon.IsSolid]>>]

(***************************************************************************)
(* BSP builder (bsp.go:78-285)                                             *)
(***************************************************************************)
RECURSIVE buildEdgeTest(_, _, _)
buildEdgeTest(ns, poly, edgeIdx) ==
  LET n == Len(poly.Vertices) IN
  IF edgeIdx >= n THEN addLeafNode(ns, TRUE)
  ELSE LET v1 == poly.Vertices[edgeIdx + 1]
           v2 == poly.Vertices[((edgeIdx + 1) % n) + 1]
           edge == Pt(FSub(v2.X, v1.X), FSub(v2.Y, v1.Y))
           split(inwardNormal, front, back) ==
             addSplitNode(back.nodes, inwardNormal.X, inwardNormal.Y,
                          FAdd(FMul(inwardNormal.X, v1.X), FMul(inwardNormal.Y, v1.Y)),
                          front.idx, back.idx)
           \* the statements run in order: each value is bound before the next
           children(inwardNormal, front) ==
             CHOOSE r \in {split(inwardNormal, front, back) :
                             back \in {buildEdgeTest(front.nodes, poly, edgeIdx + 1)}} :
               TRUE
       IN CHOOSE r \in {children(inwardNormal, front) :
                          inwardNormal \in {Normalize(Pt(edge.Y, FNeg(edge.X)))},
                          front \in {addLeafNode(ns, FALSE)}} : TRUE

\* a chain that starts at the second edge
buildConvexPolygonTreeFromSecond(ns, poly) ==
  IF Len(poly.Vertices) < 3 THEN addLeafNode(ns, FALSE)
  ELSE buildEdgeTest(ns, ensureCCW(poly), 1)

buildConvexPolygonTree(ns, poly) ==
  IF Len(poly.Vertices) < 3 THEN addLeafNode(ns, FALSE)
  ELSE buildEdgeTest(ns, ensureCCW(poly), 0)

\* a split that hands out the children of the tree as its two halves
splitTreeChildren(ns, treeIdx, splitLine) ==
  IF NodeAt(ns, treeIdx).type = "Leaf" THEN <<treeIdx, treeIdx>>
  ELSE <<NodeAt(ns, treeIdx).FrontIndex, NodeAt(ns, treeIdx).BackIndex>>

splitTree(ns, treeIdx, splitLine) ==
  IF NodeAt(ns, treeIdx).type = "Leaf" THEN <<treeIdx, treeIdx>>
  ELSE <<treeIdx, treeIdx>>

\* a merge that returns the first tree as it is
mergeTreePairFirstOnly(ns, tree1Idx, tree2Idx) == [nodes |-> ns, idx |-> tree1Idx]

RECURSIVE mergeTreePair(_, _, _)
mergeTreePair(ns, tree1Idx, tree2Idx) ==
  LET tree1 == NodeAt(ns, tree1Idx) IN
  IF tree1.type = "Leaf"
  THEN IF tree1.IsSolid THEN [nodes |-> ns, idx |-> tree1Idx]
       ELSE [nodes |-> ns, idx |-> tree2Idx]
  ELSE LET line == [Normal |-> Pt(tree1.NormalX, tree1.NormalY),
                    Distance |-> tree1.Distance]
           halves == splitTree(ns, tree2Idx, line)
           split(frontMerged, backMerged) ==
             addSplitNode(backMerged.nodes, tree1.NormalX, tree1.NormalY,
                          tree1.Distance, frontMerged.idx, backMerged.idx)
           back(frontMerged) ==
             CHOOSE r \in {split(frontMerged, backMerged) :
                             backMerged \in {mergeTreePair(frontMerged.nodes,
                                                           tree1.BackIndex, halves[2])}} :
               TRUE
       IN CHOOSE r \in {back(frontMerged) :
                          frontMerged \in {mergeTreePair(ns, tree1.FrontIndex,
                                                         halves[1])}} : TRUE

\* merge(...merge(merge(T1, T2), T3)..., Tk): the trees from treeIndices[i]
\* on merged one by one into the tree at accIdx
RECURSIVE mergeFromLeft(_, _, _, _)
mergeFromLeft(ns, accIdx, treeIndices, i) ==
  IF i > Len(treeIndices) THEN [nodes |-> ns, idx |-> accIdx]
  ELSE LET next(m) == mergeFromLeft(m.nodes, m.idx, treeIndices, i + 1)
       IN CHOOSE r \in {next(m) :
                          m \in {mergeTreePair(ns, accIdx, treeIndices[i])}} :
            TRUE

\* a merge that folds the trees from the left
mergeTreesLeftFold(ns, treeIndices) ==
  IF Len(treeIndices) = 0 THEN addLeafNode(ns, FALSE)
  ELSE mergeFromLeft(ns, treeIndices[1], treeIndices, 2)

\* a merge that keeps the first tree and loses the rest
mergeTreesFirstOnly(ns, treeIndices) ==
  IF Len(treeIndices) = 0 THEN addLeafNode(ns, FALSE)
  ELSE [nodes |-> ns, idx |-> treeIndices[1]]

RECURSIVE mergeTrees(_, _)
mergeTrees(ns, treeIndices) ==
  IF Len(treeIndices) = 0 THEN addLeafNode(ns, FALSE)
  ELSE IF Len(treeIndices) = 1 THEN [nodes |-> ns, idx |-> treeIndices[1]]
  ELSE LET pair(rest) == mergeTreePair(rest.nodes, Head(treeIndices), rest.idx)
       IN CHOOSE r \in {pair(rest) : rest \in {mergeTrees(ns, Tail(treeIndices))}} :
            TRUE

\* a first step that stops at the first polygon the partitioner rejects
RECURSIVE partitionAllStopAtError(_, _)
partitionAllStopAtError(polys, i) ==
  IF i > Len(polys) THEN <<>>
  ELSE LET collect(r) == IF r.err THEN <<>>
                         ELSE r.polys \o partitionAllStopAtError(polys, i + 1)
       IN collect(PartitionPolygonConvex(polys[i]))

\* Build, step 1: the convex pieces of all polygons, failed polygons skipped
RECURSIVE partitionAll(_, _)
partitionAll(polys, i) ==
  IF i > Len(polys) THEN <<>>
  ELSE LET collect(r) == IF r.err THEN partitionAll(polys, i + 1)
                         ELSE r.polys \o partitionAll(polys, i + 1)
       IN collect(PartitionPolygonConvex(polys[i]))

\* Build, step 2: one tree per solid convex piece
RECURSIVE buildPolyTrees(_, _, _, _)
buildPolyTrees(ns, convexPolygons, i, polyTreeIndices) ==
  IF i > Len(convexPolygons) THEN [nodes |-> ns, indices |-> polyTreeIndices]
  ELSE LET poly == convexPolygons[i] IN
       IF poly.IsSolid /\ Len(poly.Vertices) >= 3
       THEN LET next(t) == buildPolyTrees(t.nodes, convexPolygons, i + 1,
                                          Append(polyTreeIndices, t.idx))
            IN CHOOSE r \in {next(t) : t \in {buildConvexPolygonTree(ns, poly)}} :
                 TRUE
       ELSE buildPolyTrees(ns, convexPolygons, i + 1, polyTreeIndices)

\* a root choice that emits no leaf for an empty list of trees
rootOfNoLeaf(ns, polyTreeIndices) ==
  IF Len(polyTreeIndices) = 0 THEN [nodes |-> ns, idx |-> 0]
  ELSE IF Len(polyTreeIndices) = 1 THEN [nodes |-> ns, idx |-> polyTreeIndices[1]]
  ELSE mergeTrees(ns, polyTreeIndices)

\* Build, step 3: the root of the combined tree
rootOf(ns, polyTreeIndices) ==
  IF Len(polyTreeIndices) = 0 THEN addLeafNode(ns, FALSE)
  ELSE IF Len(polyTreeIndices) = 1 THEN [nodes |-> ns, idx |-> polyTreeIndices[1]]
  ELSE mergeTrees(ns, polyTreeIndices)

\* a Build that truncates the builder's array to length 0 and writes the new
\* tree over the nodes of the earlier one
BuildFromReset(polys, ns) ==
  LET levelData(root) == [Nodes |-> root.nodes, RootIndex |-> root.idx]
      merged(trees) ==
        CHOOSE r \in {levelData(root) :
                        root \in {rootOf(trees.nodes, trees.indices)}} : TRUE
  IN CHOOSE r \in {merged(trees) :
                     trees \in {buildPolyTrees(<<>>, partitionAll(polys, 1), 1,
                                               <<>>)}} :
       TRUE

\* BSPBuilder.Build on a builder whose node array is ns
BuildFrom(polys, ns) ==
  LET levelData(root) == [Nodes |-> root.nodes, RootIndex |-> root.idx]
      merged(trees) ==
        CHOOSE r \in {levelData(root) :
                        root \in {rootOf(trees.nodes, trees.indices)}} : TRUE
  IN CHOOSE r \in {merged(trees) :
                     trees \in {buildPolyTrees(ns, partitionAll(polys, 1), 1, <<>>)}} :
       TRUE

(***************************************************************************)
(* BSP queries (bsp.go:433-556)                                            *)
(***************************************************************************)
RECURSIVE PointInBSP(_, _, _)
PointInBSP(ns, nodeIndex, point) ==
  IF nodeIndex < 0 \/ nodeIndex >= Len(ns) THEN FALSE
  ELSE LET node == NodeAt(ns, nodeIndex) IN
       IF node.type = "Leaf" THEN node.IsSolid
       ELSE LET line == [Normal |-> Pt(node.NormalX, node.NormalY),
                         Distance |-> node.Distance]
                side == PointSide(line, point)
            IN IF FGreater(side, FZero)
               THEN PointInBSP(ns, node.FrontIndex, point)
               ELSE PointInBSP(ns, node.BackIndex, point)

NoHit == [hit |-> FALSE, hitX |-> FZero, hitY |-> FZero]

\* the point of the segment from-to at parameter t
segmentPoint(from, to, t) ==
  Pt(FAdd(from.X, FMul(t, FSub(to.X, from.X))),
     FAdd(from.Y, FMul(t, FSub(to.Y, from.Y))))

\* traversal order with the near and the far side exchanged
startsInFrontSwapped(d0) == ~FGreater(d0, FZero)

\* traversal order of a crossing segment: the front child is the near one
\* when the sub-segment starts in front (d0 > 0)
startsInFront(d0) == FGreater(d0, FZero)

RECURSIVE LineTraceBSPNode(_, _, _, _, _, _)
LineTraceBSPNode(ns, nodeIndex, from, to, t0, t1) ==
  IF nodeIndex < 0 \/ nodeIndex >= Len(ns) THEN NoHit
  ELSE LET node == NodeAt(ns, nodeIndex)
           side(p) ==
             FSub(FAdd(FMul(node.NormalX, p.X), FMul(node.NormalY, p.Y)),
                  node.Distance)
           hitAt(p0) == [hit |-> TRUE, hitX |-> p0.X, hitY |-> p0.Y]
           crossing(d0, tMid) ==
             LET startsFront == startsInFront(d0)
                 nearIndex == IF startsFront THEN node.FrontIndex
                              ELSE node.BackIndex
                 farIndex == IF startsFront THEN node.BackIndex
                             ELSE node.FrontIndex
                 orFar(near) ==
                   IF near.hit THEN near
                   ELSE LineTraceBSPNode(ns, farIndex, from, to, tMid, t1)
             IN orFar(LineTraceBSPNode(ns, nearIndex, from, to, t0, tMid))
           split(d0, d1) ==
             IF FGreater(d0, epsilon) /\ FGreater(d1, epsilon)
             THEN LineTraceBSPNode(ns, node.FrontIndex, from, to, t0, t1)
             ELSE IF FLessEq(d0, epsilon) /\ FLessEq(d1, epsilon)
             THEN LineTraceBSPNode(ns, node.BackIndex, from, to, t0, t1)
             ELSE crossing(d0, FAdd(t0, FMul(FDiv(FNeg(d0), FSub(d1, d0)),
                                             FSub(t1, t0))))
       IN IF node.type = "Leaf"
          THEN IF node.IsSolid THEN hitAt(segmentPoint(from, to, t0))
               ELSE NoHit
          ELSE split(side(segmentPoint(from, to, t0)),
                     side(segmentPoint(from, to, t1)))

(***************************************************************************)
(* Bounds and inputs                                                       *)
(***************************************************************************)
MaxCoord == 3
MaxPolys == 3
MaxBuilds == 2

\* 2^-14, a distance below epsilon (2^-14 < 0.0001 < 2^-13)
q == Dyadic(1, -14)

Grid == 0..MaxCoord

GridPts == {Pt(FromInt(x), FromInt(y)) : x \in Grid, y \in Grid}

IPt(x, y) == Pt(FromInt(x), FromInt(y))

\* points closer than epsilon to the lines y = 0 and y = 1
NearPts ==
  {Pt(FromInt(1), FNeg(q)), Pt(FromInt(1), q),
   Pt(FromInt(1), FSub(F1, q)), Pt(FromInt(1), FAdd(F1, q))}

QueryPts == GridPts \cup NearPts

TraceFrom == NearPts \cup {IPt(0, 0), IPt(1, 1)}

TraceTo == NearPts \cup {IPt(3, 3), IPt(2, 1)}

Solid(vs) == [Vertices |-> vs, IsSolid |-> TRUE]

\* exact doubled signed area of a triangle of integer points
Cross(ax, ay, bx, by, cx, cy) == (bx - ax) * (cy - ay) - (by - ay) * (cx - ax)

\* the triangles with a corner at the origin, a second corner next to it and
\* the third anywhere on the grid, both windings
Triangles ==
  {Solid(<<IPt(0, 0), IPt(bx, by), IPt(cx, cy)>>) :
     <<bx, by, cx, cy>> \in {t \in (0..1) \X (0..1) \X Grid \X Grid :
                               Cross(0, 0, t[1], t[2], t[3], t[4]) # 0}}

\* a thin triangle of area 1/2 far from the origin
ThinTriangle == Solid(<<IPt(0, 0), IPt(4096, 4097), IPt(4097, 4098)>>)

\* a triangle of area 2^-29, below epsilon^2 = 10^-8
TinyTriangle == Solid(<<IPt(0, 0), Pt(q, FZero), Pt(FZero, q)>>)

SquareA == Solid(<<IPt(0, 0), IPt(2, 0), IPt(2, 2), IPt(0, 2)>>)

\* overlaps SquareA, clockwise
SquareB == Solid(<<IPt(0, 1), IPt(0, 3), IPt(2, 3), IPt(2, 1)>>)

Pool == {SquareA, SquareB}

RECURSIVE SeqsUpTo(_, _)
SeqsUpTo(S, n) ==
  IF n = 0 THEN {<<>>}
  ELSE LET shorter == SeqsUpTo(S, n - 1)
       IN shorter \cup {Append(s, x) : s \in {t \in shorter : Len(t) = n - 1}, x \in S}

\* two vertices only: PartitionPolygonConvex returns an error for it
Short == Solid(<<IPt(0, 0), IPt(2, 2)>>)

\* the region of SquareA, not solid
Hollow == [Vertices |-> SquareA.Vertices, IsSolid |-> FALSE]

\* lists with a polygon that Build leaves out
SkippingLists ==
  {<<Short>>, <<Short, SquareB>>, <<SquareA, Short, SquareB>>,
   <<Hollow>>, <<Hollow, SquareB>>, <<SquareA, Hollow>>}

PolygonLists ==
  {<<t>> : t \in Triangles \cup {ThinTriangle, TinyTriangle}}
    \cup SeqsUpTo(Pool, MaxPolys)
    \cup SkippingLists

(***************************************************************************)
(* State: one BSPBuilder (its Polygons and node array), the LevelData the  *)
(* last Build returned, and the query made on it.  The queries are pure    *)
(* functions of the tree: query records the arguments and the result of    *)
(* one call per returned tree.                                             *)
(***************************************************************************)
VARIABLES Polygons, nodes, level, builds, query

\* the build command (cmd/build.go, packager): the conversion outcome of each
\* level file found, the loop position of buildLevelsIterator, the channel
\* and context of the level in work, the positions of the converting
\* goroutine and of the command, the level files written and the result
VARIABLES matches, yamlIdx, resultChan, ctxDone, conv, pc, written, exit

\* the level editor (level/editor_canvas.go, level/editor_ui.go):
\* e.level.Collisions, the selection, the point being moved, the cached
\* collision tree with its dirty flag, the collision test results, and the
\* number of writes to e.level.Collisions so far
VARIABLES collisions, selectedPolygonIndex, movingPointPolygonIndex,
          movingPointIndex, collisionTestBSP, collisionTestBSPDirty,
          collisionTestPoints, revision

\* the editor's window (level/editor.go:1063-1098, cmd/level.go): unsaved
\* changes, the close dialog, the decision to close, whether the run loop is
\* still running, and what the close dialog's buttons did last
VARIABLES dirty, showCloseDialog, shouldClose, windowOpen, closeChoice

bspVars == <<Polygons, nodes, level, builds, query>>

cmdVars == <<matches, yamlIdx, resultChan, ctxDone, conv, pc, written, exit>>

closeVars == <<dirty, showCloseDialog, shouldClose, windowOpen, closeChoice>>

editorVars ==
  <<collisions, selectedPolygonIndex, movingPointPolygonIndex, movingPointIndex,
    collisionTestBSP, collisionTestBSPDirty, collisionTestPoints, revision,
    closeVars>>

vars == <<bspVars, cmdVars, editorVars>>

\* no build command running
CmdIdle ==
  /\ matches = <<>>
  /\ yamlIdx = 1
  /\ resultChan = <<>>
  /\ ctxDone = FALSE
  /\ conv = "none"
  /\ pc = "idle"
  /\ written = <<>>
  /\ exit = "none"

\* no editor open
EditorIdle ==
  /\ collisions = <<>>
  /\ selectedPolygonIndex = -1
  /\ movingPointPolygonIndex = -1
  /\ movingPointIndex = -1
  /\ collisionTestBSP = [built |-> FALSE, revision |-> 0]
  /\ collisionTestBSPDirty = FALSE
  /\ collisionTestPoints = <<>>
  /\ revision = 0
  /\ dirty = FALSE
  /\ showCloseDialog = FALSE
  /\ shouldClose = FALSE
  /\ windowOpen = FALSE
  /\ closeChoice = "none"

NoLevel == [Nodes |-> <<>>, RootIndex |-> -1]

NoQuery ==
  [kind |-> "none", from |-> Pt(FZero, FZero), to |-> Pt(FZero, FZero),
   inside |-> FALSE, trace |-> NoHit]

\* NewBSPBuilder(polygons)
Init ==
  /\ Polygons \in PolygonLists
  /\ nodes = <<>>
  /\ level = NoLevel
  /\ builds = 0
  /\ query = NoQuery
  /\ CmdIdle
  /\ EditorIdle

\* b.Build()
Build ==
  /\ builds < MaxBuilds
  /\ \E l \in {BuildFrom(Polygons, nodes)} :
        /\ level' = l
        /\ nodes' = l.Nodes
  /\ builds' = builds + 1
  /\ query' = NoQuery
  /\ UNCHANGED <<Polygons, cmdVars, editorVars>>

\* PointInBSP(level.Nodes, level.RootIndex, p)
PointQuery(p) ==
  /\ builds > 0
  /\ query.kind = "none"
  /\ query' = [kind |-> "point", from |-> p, to |-> p,
               inside |-> PointInBSP(level.Nodes, level.RootIndex, p),
               trace |-> NoHit]
  /\ UNCHANGED <<Polygons, nodes, level, builds, cmdVars, editorVars>>

\* LineTraceBSPNode(level.Nodes, level.RootIndex, from, to, 0, 1)
LineTrace(from, to) ==
  /\ builds > 0
  /\ query.kind = "none"
  /\ query' = [kind |-> "trace", from |-> from, to |-> to, inside |-> FALSE,
               trace |-> LineTraceBSPNode(level.Nodes, level.RootIndex,
                                          from, to, FZero, F1)]
  /\ UNCHANGED <<Polygons, nodes, level, builds, cmdVars, editorVars>>

Next ==
  \/ Build
  \/ \E p \in QueryPts : PointQuery(p)
  \/ \E from \in TraceFrom, to \in TraceTo : LineTrace(from, to)

Spec == Init /\ [][Next]_vars

(***************************************************************************)
(* Exact reference geometry for polygons and points with integer           *)
(* coordinates                                                             *)
(***************************************************************************)
IsInt(f) == f[1] = 0 \/ f[2] >= 0 \/ (f[2] >= -23 /\ f[1] % Pow2(-f[2]) = 0)

ToInt(f) ==
  IF f[1] = 0 THEN 0
  ELSE IF f[2] >= 0 THEN f[1] * Pow2(f[2])
  ELSE f[1] \div Pow2(-f[2])

IsIntPt(p) == IsInt(p.X) /\ IsInt(p.Y)

Range(sq) == {sq[k] : k \in 1..Len(sq)}

\* doubled signed area of the triangle a, b, c
CrossPts(a, b, c) ==
  Cross(ToInt(a.X), ToInt(a.Y), ToInt(b.X), ToInt(b.Y), ToInt(c.X), ToInt(c.Y))

Succ(vs, i) == vs[(i % Len(vs)) + 1]

\* p lies in the closed convex polygon vs (either winding)
InClosedPolygon(vs, p) ==
  \/ \A i \in 1..Len(vs) : CrossPts(vs[i], Succ(vs, i), p) >= 0
  \/ \A i \in 1..Len(vs) : CrossPts(vs[i], Succ(vs, i), p) <= 0

RECURSIVE ShoelaceFrom(_, _)
ShoelaceFrom(vs, i) ==
  IF i > Len(vs) THEN 0
  ELSE ToInt(vs[i].X) * ToInt(Succ(vs, i).Y) - ToInt(Succ(vs, i).X) * ToInt(vs[i].Y)
       + ShoelaceFrom(vs, i + 1)

\* doubled exact signed area
ExactArea2(vs) == ShoelaceFrom(vs, 1)

\* the tree of Build on a fresh builder holding polys
FreshBuild(polys) == BuildFrom(polys, <<>>)

InTree(l, p) == PointInBSP(l.Nodes, l.RootIndex, p)

Reversed(poly) == [Vertices |-> Reverse(poly.Vertices), IsSolid |-> poly.IsSolid]

(***************************************************************************)
(* Claims                                                                  *)
(***************************************************************************)

\* C1: union correctness of Build: a point is solid in the tree built from
\* P1..Pk exactly when it is solid in the tree built from one of the Pi alone.
C1_UnionOfPolygons ==
  query.kind = "point" =>
    query.inside = (\E i \in 1..Len(Polygons) :
                      InTree(FreshBuild(<<Polygons[i]>>), query.from))

\* a point that is solid only through the last of three polygons
C1_Witness ==
  /\ query.kind = "point"
  /\ Len(Polygons) = 3
  /\ query.inside
  /\ ~InTree(FreshBuild(<<Polygons[1]>>), query.from)
  /\ ~InTree(FreshBuild(<<Polygons[2]>>), query.from)

\* C2: single convex polygon oracle: for one convex polygon of nonzero area
\* the point query is true exactly on the closed polygon (interior, edges and
\* vertices) and false outside.
C2_SinglePolygonOracle ==
  (/\ query.kind = "point"
   /\ Len(Polygons) = 1
   /\ Polygons[1].IsSolid
   /\ IsIntPt(query.from)
   /\ \A v \in Range(Polygons[1].Vertices) : IsIntPt(v)
   /\ ExactArea2(Polygons[1].Vertices) # 0)
  => query.inside = InClosedPolygon(Polygons[1].Vertices, query.from)

\* C3: Build of an empty polygon list on a fresh builder returns the single
\* node Leaf{is_solid=false} with root index 0; every point query on it is
\* false and every trace reports no hit.
C3_EmptyBuild ==
  (Polygons = <<>> /\ builds = 1) =>
    /\ level = [Nodes |-> <<Leaf(FALSE)>>, RootIndex |-> 0]
    /\ query.kind = "point" => ~query.inside
    /\ query.kind = "trace" => query.trace = NoHit

C3_Witness ==
  /\ Polygons = <<>>
  /\ builds = 1
  /\ query.kind = "trace"
  /\ query.from # query.to
  /\ ~query.trace.hit

\* every Split of the first n nodes has both children at smaller indices
ChildrenBelow(ns, n) ==
  \A i \in 0..(n - 1) :
    NodeAt(ns, i).type = "Split" =>
      /\ NodeAt(ns, i).FrontIndex \in 0..(i - 1)
      /\ NodeAt(ns, i).BackIndex \in 0..(i - 1)

\* C4: child-index validity: in the returned tree and in the builder's node
\* array after every append, both children of a Split lie in range, differ
\* from the Split's index and are smaller than it.  Nodes are only appended,
\* so the arrays during construction are the prefixes of the final one, and
\* children below the Split's own index lie in every prefix that holds it.
C4_ChildIndexValidity ==
  /\ ChildrenBelow(nodes, Len(nodes))
  /\ ChildrenBelow(level.Nodes, Len(level.Nodes))
  /\ builds > 0 => level.RootIndex \in 0..(Len(level.Nodes) - 1)

\* a merged tree: the root is a Split made by mergeTreePair over two Splits
C4_Witness ==
  /\ builds > 0
  /\ Len(Polygons) >= 2
  /\ NodeAt(level.Nodes, level.RootIndex).type = "Split"
  /\ NodeAt(level.Nodes, NodeAt(level.Nodes, level.RootIndex).FrontIndex).type = "Split"
  /\ NodeAt(level.Nodes, NodeAt(level.Nodes, level.RootIndex).BackIndex).type = "Split"

\* the nodes visited from node i, one entry per path
RECURSIVE Visits(_, _)
Visits(ns, i) ==
  IF NodeAt(ns, i).type = "Leaf" THEN <<i>>
  ELSE <<i>> \o Visits(ns, NodeAt(ns, i).FrontIndex)
            \o Visits(ns, NodeAt(ns, i).BackIndex)

\* C5: tree shape: in every tree returned by Build no node is reachable from
\* the root along two different paths.
C5_TreeShape ==
  builds > 0 =>
    LET v == Visits(level.Nodes, level.RootIndex)
    IN Cardinality(Range(v)) = Len(v)

\* C7: winding invariance: for a polygon of nonzero area the trees built from
\* it and from its reversal agree on every point query.
C7_WindingInvariance ==
  (/\ query.kind = "point"
   /\ Len(Polygons) = 1
   /\ \A v \in Range(Polygons[1].Vertices) : IsIntPt(v)
   /\ ExactArea2(Polygons[1].Vertices) # 0)
  => query.inside = InTree(FreshBuild(<<Reversed(Polygons[1])>>), query.from)

\* C8: union commutativity at query level: the trees built from [A, B] and
\* from [B, A] agree on every point (stated for every point, those within
\* epsilon of a partition boundary included).
C8_UnionCommutes ==
  (query.kind = "point" /\ Len(Polygons) = 2) =>
    query.inside = InTree(FreshBuild(<<Polygons[2], Polygons[1]>>), query.from)

\* a point solid in B and not in A
C8_Witness ==
  /\ query.kind = "point"
  /\ Len(Polygons) = 2
  /\ query.inside
  /\ ~InTree(FreshBuild(<<Polygons[1]>>), query.from)

\* C9: a trace that starts at a solid point reports a hit at its start.
C9_TraceFromInside ==
  (query.kind = "trace" /\ InTree(level, query.from)) =>
    /\ query.trace.hit
    /\ query.trace.hitX = query.from.X
    /\ query.trace.hitY = query.from.Y

\* a segment that leaves the solid it starts in
C9_Witness ==
  /\ query.kind = "trace"
  /\ InTree(level, query.from)
  /\ ~InTree(level, query.to)
  /\ query.trace.hit
  /\ query.trace.hitX = query.from.X
  /\ query.trace.hitY = query.from.Y

\* 2^-15: far above the rounding error of PointSide on coordinates up to 4
\* (below 2^-18), below the offsets 2^-14 of NearPts
Margin == Dyadic(1, -15)

Four == Dyadic(1, 2)

SmallPt(p) ==
  /\ FLessEq(FNeg(Four), p.X) /\ FLessEq(p.X, Four)
  /\ FLessEq(FNeg(Four), p.Y) /\ FLessEq(p.Y, Four)

SmallPolygons ==
  \A i \in 1..Len(Polygons) :
    \A k \in 1..Len(Polygons[i].Vertices) : SmallPt(Polygons[i].Vertices[k])

\* no point of the segment from-to is solid below node i: wherever both ends
\* are in front of a plane by more than Margin (or behind it by more than
\* Margin) so is every point between them, and the point query takes that
\* child; otherwise both children are followed
RECURSIVE ClearOfSolid(_, _, _, _)
ClearOfSolid(ns, i, from, to) ==
  LET node == NodeAt(ns, i) IN
  IF node.type = "Leaf" THEN ~node.IsSolid
  ELSE LET line == [Normal |-> Pt(node.NormalX, node.NormalY),
                    Distance |-> node.Distance]
           s0 == PointSide(line, from)
           s1 == PointSide(line, to)
       IN IF FGreater(s0, Margin) /\ FGreater(s1, Margin)
          THEN ClearOfSolid(ns, node.FrontIndex, from, to)
          ELSE IF FLess(s0, FNeg(Margin)) /\ FLess(s1, FNeg(Margin))
          THEN ClearOfSolid(ns, node.BackIndex, from, to)
          ELSE /\ ClearOfSolid(ns, node.FrontIndex, from, to)
               /\ ClearOfSolid(ns, node.BackIndex, from, to)

\* C10: a trace along a segment of which no point is solid reports no hit.
C10_TraceOutside ==
  (/\ query.kind = "trace"
   /\ SmallPolygons
   /\ ClearOfSolid(level.Nodes, level.RootIndex, query.from, query.to))
  => ~query.trace.hit

\* the point a trace reported as its hit
HitPoint == Pt(query.trace.hitX, query.trace.hitY)

\* C11: first hit, first part: the point a trace reports as its hit is solid
\* per PointInBSP on the same tree.
C11_HitIsSolid ==
  (query.kind = "trace" /\ query.trace.hit) => InTree(level, HitPoint)

(***************************************************************************)
(* Queries on node arrays that Build did not produce (bsp.go:433-556).     *)
(* PointInBSP and LineTraceBSPNode are exported and take any               *)
(* []*pb.BSPNode: an array read from a level file may hold nil entries,    *)
(* nodes with no Type, child indices outside the array and child indices   *)
(* that lead back to an ancestor.  A call is evaluated on a goroutine      *)
(* stack of MaxStack frames: a recursion that needs more ends the program  *)
(* with the runtime's stack overflow error.                                *)
(***************************************************************************)
MaxStack == 8

\* a nil entry of the node array
NilNode == [type |-> "nil"]

\* a node whose Type oneof is unset
NoType == [type |-> "none"]

\* the bounds test with the upper limit off by one
inRangeInclusive(ns, nodeIndex) == ~(nodeIndex < 0 \/ nodeIndex > Len(ns))

\* negation of the early-return test on nodeIndex
inRange(ns, nodeIndex) == ~(nodeIndex < 0 \/ nodeIndex >= Len(ns))

\* PointInBSP with frames stack frames left; "panic" is the runtime's index
\* check on nodes[nodeIndex]
RECURSIVE PointInBSPWithin(_, _, _, _)
PointInBSPWithin(ns, nodeIndex, point, frames) ==
  IF frames = 0 THEN "overflow"
  ELSE IF ~inRange(ns, nodeIndex) THEN "false"
  ELSE IF nodeIndex + 1 \notin DOMAIN ns THEN "panic"
  ELSE LET node == NodeAt(ns, nodeIndex) IN
       IF node.type = "nil" THEN "false"
       ELSE IF node.type = "Leaf"
       THEN IF node.IsSolid THEN "true" ELSE "false"
       ELSE IF node.type = "Split"
       THEN LET line == [Normal |-> Pt(node.NormalX, node.NormalY),
                         Distance |-> node.Distance]
                side == PointSide(line, point)
            IN IF FGreater(side, FZero)
               THEN PointInBSPWithin(ns, node.FrontIndex, point, frames - 1)
               ELSE PointInBSPWithin(ns, node.BackIndex, point, frames - 1)
       ELSE "false"

\* the results of a trace call: returned, or ended by a runtime error
Returned(r) == [hit |-> r.hit, hitX |-> r.hitX, hitY |-> r.hitY, fault |-> "none"]

Fault(f) == [hit |-> FALSE, hitX |-> FZero, hitY |-> FZero, fault |-> f]

\* LineTraceBSPNode with frames stack frames left
RECURSIVE LineTraceWithin(_, _, _, _, _, _, _)
LineTraceWithin(ns, nodeIndex, from, to, t0, t1, frames) ==
  IF frames = 0 THEN Fault("overflow")
  ELSE IF ~inRange(ns, nodeIndex) THEN Returned(NoHit)
  ELSE IF nodeIndex + 1 \notin DOMAIN ns THEN Fault("panic")
  ELSE LET node == NodeAt(ns, nodeIndex)
           side(p) ==
             FSub(FAdd(FMul(node.NormalX, p.X), FMul(node.NormalY, p.Y)),
                  node.Distance)
           hitAt(p0) == Returned([hit |-> TRUE, hitX |-> p0.X, hitY |-> p0.Y])
           crossing(d0, tMid) ==
             LET startsFront == startsInFront(d0)
                 nearIndex == IF startsFront THEN node.FrontIndex
                              ELSE node.BackIndex
                 farIndex == IF startsFront THEN node.BackIndex
                             ELSE node.FrontIndex
                 orFar(near) ==
                   IF near.fault # "none" \/ near.hit THEN near
                   ELSE LineTraceWithin(ns, farIndex, from, to, tMid, t1,
                                        frames - 1)
             IN orFar(LineTraceWithin(ns, nearIndex, from, to, t0, tMid,
                                      frames - 1))
           split(d0, d1) ==
             IF FGreater(d0, epsilon) /\ FGreater(d1, epsilon)
             THEN LineTraceWithin(ns, node.FrontIndex, from, to, t0, t1,
                                  frames - 1)
             ELSE IF FLessEq(d0, epsilon) /\ FLessEq(d1, epsilon)
             THEN LineTraceWithin(ns, node.BackIndex, from, to, t0, t1,
                                  frames - 1)
             ELSE crossing(d0, FAdd(t0, FMul(FDiv(FNeg(d0), FSub(d1, d0)),
                                             FSub(t1, t0))))
       IN IF node.type = "nil" THEN Returned(NoHit)
          ELSE IF node.type = "Leaf"
          THEN IF node.IsSolid THEN hitAt(segmentPoint(from, to, t0))
               ELSE Returned(NoHit)
          ELSE IF node.type = "Split"
          THEN split(side(segmentPoint(from, to, t0)),
                     side(segmentPoint(from, to, t1)))
          ELSE Returned(NoHit)

\* child and root indices of the arrays below: -1 and 3 lie outside an array
\* of three nodes, 0 is the root itself
ForeignIdx == {-1, 0, 1, 2, 3}

\* node 1 of the arrays below: absent, without Type, an empty leaf, or a
\* Split on the line y = 1 that leads back to node 0 or on to the solid leaf
ForeignSlot ==
  {NilNode, NoType, Leaf(FALSE),
   Split(FZero, F1, F1, 0, 2), Split(FZero, F1, F1, 2, 1)}

\* node 0 is a Split on the line x = 1, node 2 a solid leaf
ForeignArrays ==
  {<<Split(F1, FZero, F1, f, b), x, Leaf(TRUE)>> :
     f \in ForeignIdx, b \in ForeignIdx, x \in ForeignSlot}

ForeignLevels ==
  {[Nodes |-> ns, RootIndex |-> r] : ns \in ForeignArrays, r \in {-1, 0, 1, 3}}

ForeignPts == {IPt(0, 0), IPt(2, 0), IPt(0, 2), IPt(2, 2)}

\* a LevelData obtained from outside the builder
TreeInit ==
  /\ Polygons = <<>>
  /\ nodes = <<>>
  /\ level \in ForeignLevels
  /\ builds = 0
  /\ query = [kind |-> "none"]
  /\ CmdIdle
  /\ EditorIdle

\* PointInBSP(level.Nodes, level.RootIndex, p)
TreePointQuery(p) ==
  /\ query.kind = "none"
  /\ query' = [kind |-> "point", from |-> p, to |-> p,
               point |-> PointInBSPWithin(level.Nodes, level.RootIndex, p,
                                          MaxStack)]
  /\ UNCHANGED <<Polygons, nodes, level, builds, cmdVars, editorVars>>

\* LineTraceBSPNode(level.Nodes, level.RootIndex, from, to, 0, 1)
TreeLineTrace(from, to) ==
  /\ query.kind = "none"
  /\ query' = [kind |-> "trace", from |-> from, to |-> to,
               trace |-> LineTraceWithin(level.Nodes, level.RootIndex,
                                         from, to, FZero, F1, MaxStack)]
  /\ UNCHANGED <<Polygons, nodes, level, builds, cmdVars, editorVars>>

TreeNext ==
  \/ \E p \in ForeignPts : TreePointQuery(p)
  \/ \E from \in ForeignPts, to \in ForeignPts : TreeLineTrace(from, to)

TreeSpec == TreeInit /\ [][TreeNext]_vars

\* C12: on a node array whose child indices contain a cycle both queries
\* terminate, PointInBSP with false and LineTraceBSPNode with no hit: no
\* query ends in a stack overflow.
C12_CyclicTerminates ==
  /\ query.kind = "point" => query.point # "overflow"
  /\ query.kind = "trace" => query.trace.fault # "overflow"

\* an index outside the array replaced by the index of an appended empty leaf
RepairIdx(ns, i) == IF i < 0 \/ i >= Len(ns) THEN Len(ns) ELSE i

\* the array with every nil entry replaced by an empty leaf and every index
\* outside the array pointing to an empty leaf appended at the end
Repaired(ns) ==
  [i \in 1..(Len(ns) + 1) |->
     IF i = Len(ns) + 1 THEN Leaf(FALSE)
     ELSE IF ns[i].type = "nil" THEN Leaf(FALSE)
     ELSE IF ns[i].type = "Split"
     THEN [ns[i] EXCEPT !.FrontIndex = RepairIdx(ns, @),
                        !.BackIndex = RepairIdx(ns, @)]
     ELSE ns[i]]

\* C13: a negative index, an index >= len(nodes) and a nil node, at the root
\* or at a child, are treated as empty space: each query returns what it
\* returns on the array with empty leaves in those places, and no query ends
\* in a runtime panic.
C13_OutOfRangeIsEmpty ==
  /\ query.kind = "point" =>
       /\ query.point # "panic"
       /\ query.point =
            PointInBSPWithin(Repaired(level.Nodes),
                             RepairIdx(level.Nodes, level.RootIndex),
                             query.from, MaxStack)
  /\ query.kind = "trace" =>
       /\ query.trace.fault # "panic"
       /\ query.trace =
            LineTraceWithin(Repaired(level.Nodes),
                            RepairIdx(level.Nodes, level.RootIndex),
                            query.from, query.to, FZero, F1, MaxStack)

\* a trace from the front of the root plane, whose front index is len(nodes),
\* to the back, where it hits the solid leaf: the missing branch was skipped
C13_Witness ==
  /\ query.kind = "trace"
  /\ level.RootIndex = 0
  /\ level.Nodes[1].FrontIndex = 3
  /\ level.Nodes[1].BackIndex = 2
  /\ query.from = IPt(2, 0)
  /\ query.to = IPt(0, 0)
  /\ query.trace.fault = "none"
  /\ query.trace.hit

\* the polygons the partitioner accepts
PartitionOk(poly) == ~PartitionPolygonConvex(poly).err

\* C14: lenient build: Build returns a tree for every input list, and a polygon
\* for which PartitionPolygonConvex returns an error is skipped: the nodes
\* sequence and root index returned are those of Build, on the same builder
\* state, with that polygon removed from the list.
C14_LenientBuild ==
  [][builds' = builds + 1 =>
       level' = BuildFrom(SelectSeq(Polygons, PartitionOk), nodes)]_vars

\* a tree built from a list with a rejected polygon before an accepted one
C14_Witness ==
  /\ builds > 0
  /\ Len(Polygons) > 1
  /\ ~PartitionOk(Polygons[1])
  /\ PartitionOk(Polygons[2])
  /\ NodeAt(level.Nodes, level.RootIndex).type = "Split"

\* fewer than 3 vertices, or |signed area| below epsilon^2
DegeneratePolygon(poly) ==
  LET small(area) == FLess(<<Abs(area[1]), area[2]>>, FMul(epsilon, epsilon))
  IN Len(poly.Vertices) < 3 \/ small(signedArea(poly))

\* C15: a degenerate polygon (fewer than 3 vertices, or |signed area| below
\* epsilon^2) is rejected: the tree built from it holds no Split and no point
\* is solid in it.
C15_DegenerateRejected ==
  (builds > 0 /\ Len(Polygons) = 1 /\ DegeneratePolygon(Polygons[1])) =>
    /\ \A i \in 1..Len(level.Nodes) : level.Nodes[i].type # "Split"
    /\ query.kind = "point" => ~query.inside

(***************************************************************************)
(* Life of one builder (bsp.go:63-113): Polygons is an exported field that *)
(* the owner of the builder may assign between two calls of Build.  The    *)
(* LevelData a Build returned shares its Nodes with the builder's array:   *)
(* a reader holding it sees the first len(Nodes) entries of that array.    *)
(***************************************************************************)
\* the lists assigned to b.Polygons after construction
Replacements == {<<>>, <<SquareB>>, <<SquareA, SquareB>>}

\* b.Polygons = ps
SetPolygons(ps) ==
  /\ Polygons # ps
  /\ Polygons' = ps
  /\ UNCHANGED <<nodes, level, builds, query, cmdVars, editorVars>>

RebuildNext ==
  \/ Build
  \/ \E ps \in Replacements : SetPolygons(ps)

RebuildSpec == Init /\ [][RebuildNext]_vars

\* C16: old trees stay valid: a later Build on the same builder leaves every
\* node below the length of the tree returned before as it was (kind, plane
\* and child indices); the earlier root index, held by the reader, still
\* names the same node, so queries on the earlier tree answer as before.
C16_OldTreesStayValid ==
  [][builds' = builds + 1 =>
       /\ Len(nodes') >= Len(level.Nodes)
       /\ SubSeq(nodes', 1, Len(level.Nodes)) = level.Nodes]_vars

\* a second Build, for other polygons, that kept the nodes of the first
C16_Witness ==
  /\ builds = 2
  /\ Polygons # <<>>
  /\ Len(level.Nodes) > Len(FreshBuild(Polygons).Nodes)
  /\ level.RootIndex >= Len(level.Nodes) - Len(FreshBuild(Polygons).Nodes)

\* the polygons Build emits nodes for
EmitsNodes(poly) == poly.IsSolid /\ Len(poly.Vertices) >= 3

\* C17: solid flag handling: every piece PartitionPolygonConvex returns has
\* the IsSolid flag of its input polygon, and Build emits nodes only for
\* solid pieces of at least 3 vertices: a polygon with IsSolid = false adds
\* no nodes and makes no point solid (the tree is that of the list without
\* it).
C17_SolidFlag ==
  /\ [](\A i \in 1..Len(Polygons) :
          \A piece \in Range(PartitionPolygonConvex(Polygons[i]).polys) :
            piece.IsSolid = Polygons[i].IsSolid)
  /\ [][builds' = builds + 1 =>
          level' = BuildFrom(SelectSeq(Polygons, EmitsNodes), nodes)]_vars

\* a point inside the region of a polygon that is not solid, found empty in
\* a tree that has a solid polygon as well
C17_Witness ==
  /\ query.kind = "point"
  /\ ~query.inside
  /\ NodeAt(level.Nodes, level.RootIndex).type = "Split"
  /\ \E i \in 1..Len(Polygons) :
        /\ ~Polygons[i].IsSolid
        /\ InTree(FreshBuild(<<Solid(Polygons[i].Vertices)>>), query.from)

(***************************************************************************)
(* The build command (cmd/build.go:33-149) with buildLevelsIterator        *)
(* (cmd/build.go:203-300) and the packager's loop over it                  *)
(* (packager/packager_linux.go:59-78).  A level file is described by what  *)
(* its conversion does: "ok" and "error" conversions send their result     *)
(* within 30 s, a "slow" one is still running when the context's timer     *)
(* fires.                                                                  *)
(***************************************************************************)
MaxLevels == 3

Outcomes == {"ok", "error", "slow"}

\* no build command and no editor touches the builder
BspIdle ==
  /\ Polygons = <<>>
  /\ nodes = <<>>
  /\ level = NoLevel
  /\ builds = 0
  /\ query = NoQuery

\* the command line `build`, with the .yaml files filepath.Walk will find
CmdInit ==
  /\ matches \in SeqsUpTo(Outcomes, MaxLevels)
  /\ yamlIdx = 1
  /\ resultChan = <<>>
  /\ ctxDone = FALSE
  /\ conv = "none"
  /\ pc = "idle"
  /\ written = <<>>
  /\ exit = "none"
  /\ BspIdle
  /\ EditorIdle

\* lint, code generation, compilation and the packager's steps before the
\* level loop succeeded
PackagingStarts ==
  /\ pc = "idle"
  /\ pc' = "loop"
  /\ UNCHANGED <<matches, yamlIdx, resultChan, ctxDone, conv, written, exit>>
  /\ UNCHANGED <<bspVars, editorVars>>

\* a step other than the level conversion returns an error: RunE returns it
StepFails ==
  /\ pc \in {"idle", "package"}
  /\ pc' = "done"
  /\ exit' = "error"
  /\ UNCHANGED <<matches, yamlIdx, resultChan, ctxDone, conv, written>>
  /\ UNCHANGED <<bspVars, editorVars>>

\* the loop body up to the select: a fresh context and channel, go func()
NextLevel ==
  /\ pc = "loop"
  /\ yamlIdx <= Len(matches)
  /\ resultChan' = <<>>
  /\ ctxDone' = FALSE
  /\ conv' = "running"
  /\ pc' = "select"
  /\ UNCHANGED <<matches, yamlIdx, written, exit>>
  /\ UNCHANGED <<bspVars, editorVars>>

\* the goroutine sends its result on the buffered channel
ConversionSends ==
  /\ conv = "running"
  /\ matches[yamlIdx] # "slow"
  /\ resultChan' = <<[err |-> matches[yamlIdx] = "error"]>>
  /\ conv' = "sent"
  /\ UNCHANGED <<matches, yamlIdx, ctxDone, pc, written, exit>>
  /\ UNCHANGED <<bspVars, editorVars>>

\* the goroutine returns: its deferred cancel() closes ctx.Done()
DeferredCancel ==
  /\ conv = "sent"
  /\ conv' = "done"
  /\ ctxDone' = TRUE
  /\ UNCHANGED <<matches, yamlIdx, resultChan, pc, written, exit>>
  /\ UNCHANGED <<bspVars, editorVars>>

\* the 30 s timer of context.WithTimeout fires
Timeout ==
  /\ pc = "select"
  /\ matches[yamlIdx] = "slow"
  /\ ~ctxDone
  /\ ctxDone' = TRUE
  /\ UNCHANGED <<matches, yamlIdx, resultChan, conv, pc, written, exit>>
  /\ UNCHANGED <<bspVars, editorVars>>

\* select takes case <-ctx.Done(): the iterator prints the error and returns;
\* the packager's range loop ends and the packager goes on
SelectDone ==
  /\ pc = "select"
  /\ ctxDone
  /\ pc' = "package"
  /\ UNCHANGED <<matches, yamlIdx, resultChan, ctxDone, conv, written, exit>>
  /\ UNCHANGED <<bspVars, editorVars>>

\* select takes case res := <-resultChan: an error ends the iterator like a
\* timeout, a converted level is yielded
SelectResult ==
  /\ pc = "select"
  /\ resultChan # <<>>
  /\ resultChan' = <<>>
  /\ pc' = IF resultChan[1].err THEN "package" ELSE "yield"
  /\ UNCHANGED <<matches, yamlIdx, ctxDone, conv, written, exit>>
  /\ UNCHANGED <<bspVars, editorVars>>

\* the body of the packager's range loop wrote the level file
WriteLevel ==
  /\ pc = "yield"
  /\ written' = Append(written, yamlIdx)
  /\ yamlIdx' = yamlIdx + 1
  /\ pc' = "loop"
  /\ UNCHANGED <<matches, resultChan, ctxDone, conv, exit>>
  /\ UNCHANGED <<bspVars, editorVars>>

\* os.MkdirAll or os.WriteFile failed: packagePlatform returns the error
WriteFails ==
  /\ pc = "yield"
  /\ pc' = "done"
  /\ exit' = "error"
  /\ UNCHANGED <<matches, yamlIdx, resultChan, ctxDone, conv, written>>
  /\ UNCHANGED <<bspVars, editorVars>>

\* all level files were yielded
IteratorEnds ==
  /\ pc = "loop"
  /\ yamlIdx > Len(matches)
  /\ pc' = "package"
  /\ UNCHANGED <<matches, yamlIdx, resultChan, ctxDone, conv, written, exit>>
  /\ UNCHANGED <<bspVars, editorVars>>

\* the rest of the packager succeeded: "Build complete", RunE returns nil
PackageDone ==
  /\ pc = "package"
  /\ pc' = "done"
  /\ exit' = "ok"
  /\ UNCHANGED <<matches, yamlIdx, resultChan, ctxDone, conv, written>>
  /\ UNCHANGED <<bspVars, editorVars>>

CmdNext ==
  \/ PackagingStarts
  \/ StepFails
  \/ NextLevel
  \/ ConversionSends
  \/ DeferredCancel
  \/ Timeout
  \/ SelectDone
  \/ SelectResult
  \/ WriteLevel
  \/ WriteFails
  \/ IteratorEnds
  \/ PackageDone

CmdSpec == CmdInit /\ [][CmdNext]_vars

\* C18: a level conversion that times out after 30 s or returns an error
\* fails the build command: the command does not finish successfully with
\* only the levels converted before the failure.
C18_ConversionFailureFailsBuild ==
  exit = "ok" => \A i \in 1..Len(matches) : matches[i] = "ok"

(***************************************************************************)
(* The level editor's collision tools (level/editor_canvas.go:84-157,      *)
(* 346-513, 701-780, level/editor_ui.go:423-464).  A collision polygon is  *)
(* described by the number of points of its outline; revision counts the   *)
(* writes to e.level.Collisions, and the cached tree is described by the   *)
(* revision of the collisions it was built from.                           *)
(***************************************************************************)
MaxRevisions == 3
MaxPolygons == 2
MaxTests == 2

\* e.collisionTestBSP == nil
NilBSP == [built |-> FALSE, revision |-> 0]

\* the sequence without its element at 0-based index i
RemoveAt(sq, i) == SubSeq(sq, 1, i) \o SubSeq(sq, i + 2, Len(sq))

\* index is a valid 0-based index of a slice of length n
ValidIndex(n, index) == index >= 0 /\ index < n

\* the number of points of the polygon in a level loaded from a file
LoadedOutline == 3

\* NewEditor: a new level, or a loaded level with one triangle.  The indices
\* start at -1 or at Go's zero value, the tree starts nil or built from the
\* loaded level, and the flag starts either way.
EditorInit ==
  /\ collisions \in {<<>>, <<LoadedOutline>>}
  /\ revision = 0
  /\ selectedPolygonIndex \in {-1, 0}
  /\ movingPointPolygonIndex \in {-1, 0}
  /\ movingPointIndex \in {-1, 0}
  /\ collisionTestBSP \in {NilBSP, [built |-> TRUE, revision |-> 0]}
  /\ collisionTestBSPDirty \in BOOLEAN
  /\ collisionTestPoints = <<>>
  /\ dirty = FALSE
  /\ showCloseDialog = FALSE
  /\ shouldClose = FALSE
  /\ windowOpen = TRUE
  /\ closeChoice = "none"
  /\ BspIdle
  /\ CmdIdle

\* e.markCollisionBSPDirty()
markCollisionBSPDirty == collisionTestBSPDirty' = TRUE

\* e.buildCollisionBSP()
buildCollisionBSP ==
  /\ collisionTestBSP' = [built |-> TRUE, revision |-> revision]
  /\ collisionTestBSPDirty' = FALSE

\* the "+ New Polygon" button
NewPolygon ==
  /\ windowOpen
  /\ revision < MaxRevisions
  /\ Len(collisions) < MaxPolygons
  /\ collisions' = Append(collisions, 0)
  /\ revision' = revision + 1
  /\ selectedPolygonIndex' = Len(collisions)
  /\ markCollisionBSPDirty
  /\ UNCHANGED <<movingPointPolygonIndex, movingPointIndex, collisionTestBSP,
                 collisionTestPoints>>
  /\ dirty' = TRUE
  /\ UNCHANGED <<showCloseDialog, shouldClose, windowOpen, closeChoice>>
  /\ UNCHANGED <<bspVars, cmdVars>>

\* a click on a polygon of the list, or inside a polygon of 3 or more points
\* while none is selected
SelectPolygon(index) ==
  /\ windowOpen
  /\ ValidIndex(Len(collisions), index)
  /\ selectedPolygonIndex # index
  /\ selectedPolygonIndex' = index
  /\ UNCHANGED <<collisions, movingPointPolygonIndex, movingPointIndex,
                 collisionTestBSP, collisionTestBSPDirty, collisionTestPoints,
                 revision>>
  /\ UNCHANGED closeVars
  /\ UNCHANGED <<bspVars, cmdVars>>

\* the Escape key
Unselect ==
  /\ windowOpen
  /\ selectedPolygonIndex # -1
  /\ selectedPolygonIndex' = -1
  /\ UNCHANGED <<collisions, movingPointPolygonIndex, movingPointIndex,
                 collisionTestBSP, collisionTestBSPDirty, collisionTestPoints,
                 revision>>
  /\ UNCHANGED closeVars
  /\ UNCHANGED <<bspVars, cmdVars>>

\* an addCollisionPoint that leaves the cached tree marked clean
addCollisionPointNoMark ==
  /\ windowOpen
  /\ revision < MaxRevisions
  /\ ValidIndex(Len(collisions), selectedPolygonIndex)
  /\ collisions' = [collisions EXCEPT ![selectedPolygonIndex + 1] = @ + 1]
  /\ revision' = revision + 1
  /\ UNCHANGED <<selectedPolygonIndex, movingPointPolygonIndex, movingPointIndex,
                 collisionTestBSP, collisionTestBSPDirty, collisionTestPoints>>
  /\ dirty' = TRUE
  /\ UNCHANGED <<showCloseDialog, shouldClose, windowOpen, closeChoice>>
  /\ UNCHANGED <<bspVars, cmdVars>>

\* e.addCollisionPoint: a click with a polygon selected
addCollisionPoint ==
  /\ windowOpen
  /\ revision < MaxRevisions
  /\ ValidIndex(Len(collisions), selectedPolygonIndex)
  /\ collisions' = [collisions EXCEPT ![selectedPolygonIndex + 1] = @ + 1]
  /\ revision' = revision + 1
  /\ markCollisionBSPDirty
  /\ UNCHANGED <<selectedPolygonIndex, movingPointPolygonIndex, movingPointIndex,
                 collisionTestBSP, collisionTestPoints>>
  /\ dirty' = TRUE
  /\ UNCHANGED <<showCloseDialog, shouldClose, windowOpen, closeChoice>>
  /\ UNCHANGED <<bspVars, cmdVars>>

\* e.startMovingPoint: the point of the selected polygon nearest to the click
startMovingPoint(foundPointIndex) ==
  /\ windowOpen
  /\ ValidIndex(Len(collisions), selectedPolygonIndex)
  /\ ValidIndex(collisions[selectedPolygonIndex + 1], foundPointIndex)
  /\ movingPointPolygonIndex' = selectedPolygonIndex
  /\ movingPointIndex' = foundPointIndex
  /\ UNCHANGED <<collisions, selectedPolygonIndex, collisionTestBSP,
                 collisionTestBSPDirty, collisionTestPoints, revision>>
  /\ UNCHANGED closeVars
  /\ UNCHANGED <<bspVars, cmdVars>>

\* e.movePoint: a drag while a point is being moved writes its new position
movePoint ==
  /\ windowOpen
  /\ revision < MaxRevisions
  /\ ValidIndex(Len(collisions), movingPointPolygonIndex)
  /\ ValidIndex(collisions[movingPointPolygonIndex + 1], movingPointIndex)
  /\ revision' = revision + 1
  /\ markCollisionBSPDirty
  /\ UNCHANGED <<collisions, selectedPolygonIndex, movingPointPolygonIndex,
                 movingPointIndex, collisionTestBSP, collisionTestPoints>>
  /\ dirty' = TRUE
  /\ UNCHANGED <<showCloseDialog, shouldClose, windowOpen, closeChoice>>
  /\ UNCHANGED <<bspVars, cmdVars>>

\* the mouse button or the move key is released
stopMoving ==
  /\ windowOpen
  /\ movingPointIndex # -1
  /\ movingPointPolygonIndex' = -1
  /\ movingPointIndex' = -1
  /\ UNCHANGED <<collisions, selectedPolygonIndex, collisionTestBSP,
                 collisionTestBSPDirty, collisionTestPoints, revision>>
  /\ UNCHANGED closeVars
  /\ UNCHANGED <<bspVars, cmdVars>>

\* e.deleteCollisionPoint: the point of the selected polygon nearest to the
\* click is removed, and the polygon with its last point
deleteCollisionPoint(foundPointIndex) ==
  /\ windowOpen
  /\ revision < MaxRevisions
  /\ ValidIndex(Len(collisions), selectedPolygonIndex)
  /\ ValidIndex(collisions[selectedPolygonIndex + 1], foundPointIndex)
  /\ IF collisions[selectedPolygonIndex + 1] = 1
     THEN /\ collisions' = RemoveAt(collisions, selectedPolygonIndex)
          /\ selectedPolygonIndex' = -1
     ELSE /\ collisions' = [collisions EXCEPT ![selectedPolygonIndex + 1] = @ - 1]
          /\ UNCHANGED selectedPolygonIndex
  /\ revision' = revision + 1
  /\ markCollisionBSPDirty
  /\ UNCHANGED <<movingPointPolygonIndex, movingPointIndex, collisionTestBSP,
                 collisionTestPoints>>
  /\ dirty' = TRUE
  /\ UNCHANGED <<showCloseDialog, shouldClose, windowOpen, closeChoice>>
  /\ UNCHANGED <<bspVars, cmdVars>>

\* e.deletePolygonAtPosition: with no polygon selected, the topmost polygon
\* of 3 or more points that contains the click is removed
deletePolygonAtPosition(i) ==
  /\ windowOpen
  /\ revision < MaxRevisions
  /\ selectedPolygonIndex < 0
  /\ ValidIndex(Len(collisions), i)
  /\ collisions[i + 1] >= 3
  /\ collisions' = RemoveAt(collisions, i)
  /\ revision' = revision + 1
  /\ markCollisionBSPDirty
  /\ UNCHANGED <<selectedPolygonIndex, movingPointPolygonIndex, movingPointIndex,
                 collisionTestBSP, collisionTestPoints>>
  /\ dirty' = TRUE
  /\ UNCHANGED <<showCloseDialog, shouldClose, windowOpen, closeChoice>>
  /\ UNCHANGED <<bspVars, cmdVars>>

\* e.handleCollisionTest: the tree is rebuilt if it is dirty or nil, then
\* queried; the result is appended
handleCollisionTest ==
  /\ windowOpen
  /\ Len(collisionTestPoints) < MaxTests
  /\ IF collisionTestBSPDirty \/ collisionTestBSP = NilBSP
     THEN buildCollisionBSP
     ELSE UNCHANGED <<collisionTestBSP, collisionTestBSPDirty>>
  /\ collisionTestPoints' =
       Append(collisionTestPoints,
              [HasPrevious |-> Len(collisionTestPoints) > 0])
  /\ UNCHANGED <<collisions, selectedPolygonIndex, movingPointPolygonIndex,
                 movingPointIndex, revision>>
  /\ UNCHANGED closeVars
  /\ UNCHANGED <<bspVars, cmdVars>>

\* the tool button "Collision Test" clears the earlier results
clearCollisionTestPoints ==
  /\ windowOpen
  /\ collisionTestPoints # <<>>
  /\ collisionTestPoints' = <<>>
  /\ UNCHANGED <<collisions, selectedPolygonIndex, movingPointPolygonIndex,
                 movingPointIndex, collisionTestBSP, collisionTestBSPDirty,
                 revision>>
  /\ UNCHANGED closeVars
  /\ UNCHANGED <<bspVars, cmdVars>>

\* e.placeTileAtPosition / e.deleteTileAtPosition: a ground tile is added,
\* changed or removed
placeTile ==
  /\ windowOpen
  /\ dirty' = TRUE
  /\ UNCHANGED <<showCloseDialog, shouldClose, windowOpen, closeChoice>>
  /\ UNCHANGED <<collisions, selectedPolygonIndex, movingPointPolygonIndex,
                 movingPointIndex, collisionTestBSP, collisionTestBSPDirty,
                 collisionTestPoints, revision>>
  /\ UNCHANGED <<bspVars, cmdVars>>

\* Editor.Save: the flag is cleared unless level.Save returns an error
Save(ok) == dirty' = IF ok THEN FALSE ELSE dirty

\* the save button of the top bar
saveButtonClicked(ok) ==
  /\ windowOpen
  /\ Save(ok)
  /\ UNCHANGED <<showCloseDialog, shouldClose, windowOpen, closeChoice>>
  /\ UNCHANGED <<collisions, selectedPolygonIndex, movingPointPolygonIndex,
                 movingPointIndex, collisionTestBSP, collisionTestBSPDirty,
                 collisionTestPoints, revision>>
  /\ UNCHANGED <<bspVars, cmdVars>>

\* app.DestroyEvent: the run loop returns if Editor.RequestClose allows it
DestroyEvent ==
  /\ windowOpen
  /\ IF ~dirty
     THEN windowOpen' = FALSE /\ UNCHANGED showCloseDialog
     ELSE IF ~showCloseDialog
     THEN showCloseDialog' = TRUE /\ UNCHANGED windowOpen
     ELSE windowOpen' = ~shouldClose /\ UNCHANGED showCloseDialog
  /\ UNCHANGED <<dirty, shouldClose, closeChoice>>
  /\ UNCHANGED <<collisions, selectedPolygonIndex, movingPointPolygonIndex,
                 movingPointIndex, collisionTestBSP, collisionTestBSPDirty,
                 collisionTestPoints, revision>>
  /\ UNCHANGED <<bspVars, cmdVars>>

\* app.FrameEvent with Editor.ShouldClose true: the run loop returns
FrameEventCloses ==
  /\ windowOpen
  /\ shouldClose
  /\ windowOpen' = FALSE
  /\ UNCHANGED <<dirty, showCloseDialog, shouldClose, closeChoice>>
  /\ UNCHANGED <<collisions, selectedPolygonIndex, movingPointPolygonIndex,
                 movingPointIndex, collisionTestBSP, collisionTestBSPDirty,
                 collisionTestPoints, revision>>
  /\ UNCHANGED <<bspVars, cmdVars>>

\* the close dialog's Save button
closeSaveButtonClicked(ok) ==
  /\ windowOpen
  /\ ~shouldClose
  /\ showCloseDialog
  /\ Save(ok)
  /\ showCloseDialog' = FALSE
  /\ shouldClose' = TRUE
  /\ closeChoice' = IF ok THEN "saved" ELSE "save failed"
  /\ UNCHANGED windowOpen
  /\ UNCHANGED <<collisions, selectedPolygonIndex, movingPointPolygonIndex,
                 movingPointIndex, collisionTestBSP, collisionTestBSPDirty,
                 collisionTestPoints, revision>>
  /\ UNCHANGED <<bspVars, cmdVars>>

\* the close dialog's Discard button
closeDiscardButtonClicked ==
  /\ windowOpen
  /\ ~shouldClose
  /\ showCloseDialog
  /\ showCloseDialog' = FALSE
  /\ shouldClose' = TRUE
  /\ closeChoice' = "discard"
  /\ UNCHANGED <<dirty, windowOpen>>
  /\ UNCHANGED <<collisions, selectedPolygonIndex, movingPointPolygonIndex,
                 movingPointIndex, collisionTestBSP, collisionTestBSPDirty,
                 collisionTestPoints, revision>>
  /\ UNCHANGED <<bspVars, cmdVars>>

\* the indices a click can find in an outline
PointIndices == 0..(LoadedOutline + MaxRevisions - 1)

EditorNext ==
  \/ NewPolygon
  \/ \E index \in 0..(MaxPolygons - 1) : SelectPolygon(index)
  \/ Unselect
  \/ addCollisionPoint
  \/ \E foundPointIndex \in PointIndices : startMovingPoint(foundPointIndex)
  \/ movePoint
  \/ stopMoving
  \/ \E foundPointIndex \in PointIndices : deleteCollisionPoint(foundPointIndex)
  \/ \E i \in 0..(MaxPolygons - 1) : deletePolygonAtPosition(i)
  \/ handleCollisionTest
  \/ clearCollisionTestPoints

EditorSpec == EditorInit /\ [][EditorNext]_vars

\* the editor with its window: the tools above, the ground tiles, saving and
\* the close protocol of the run loop
WindowNext ==
  \/ EditorNext
  \/ placeTile
  \/ \E ok \in BOOLEAN : saveButtonClicked(ok)
  \/ DestroyEvent
  \/ FrameEventCloses
  \/ \E ok \in BOOLEAN : closeSaveButtonClicked(ok)
  \/ closeDiscardButtonClicked

WindowSpec == EditorInit /\ [][WindowNext]_vars

\* C19: editor BSP cache coherence: every operation that changes the
\* collision geometry marks the cached tree dirty; a collision test leaves
\* the cache non-nil and not dirty; and the tree a collision test queries
\* was built from the collisions as they are at the test, after the most
\* recent change.
C19_CacheCoherence ==
  /\ [][(collisions' # collisions \/ revision' # revision) =>
          collisionTestBSPDirty']_vars
  /\ [][Len(collisionTestPoints') > Len(collisionTestPoints) =>
          /\ collisionTestBSP' # NilBSP
          /\ ~collisionTestBSPDirty'
          /\ collisionTestBSP'.built
          /\ collisionTestBSP'.revision = revision]_vars

\* a second collision test, on a tree built after the geometry was changed
\* following an earlier build
C19_Witness ==
  /\ Len(collisionTestPoints) = 2
  /\ collisionTestBSP.built
  /\ collisionTestBSP.revision = revision
  /\ revision > 1
  /\ ~collisionTestBSPDirty

(***************************************************************************)
(* The order in which Build merges the per-polygon trees                   *)
(***************************************************************************)
\* the per-polygon trees T1..Tk Build makes of the polygons, in input order
polyTrees(polys, ns) == buildPolyTrees(ns, partitionAll(polys, 1), 1, <<>>)

\* the level data a left fold over the per-polygon trees gives
LeftFoldLevel(trees) ==
  LET levelData(root) == [Nodes |-> root.nodes, RootIndex |-> root.idx]
  IN CHOOSE r \in {levelData(root) :
                     root \in {mergeFromLeft(trees.nodes, trees.indices[1],
                                             trees.indices, 2)}} : TRUE

\* merge(T1, merge(T2, ... merge(Tk-1, Tk)...)) evaluated innermost first:
\* the trees from treeIndices[i] down to the first are merged, each as the
\* first argument, with the tree at accIdx
RECURSIVE mergeFromRight(_, _, _, _)
mergeFromRight(ns, accIdx, treeIndices, i) ==
  IF i < 1 THEN [nodes |-> ns, idx |-> accIdx]
  ELSE LET next(m) == mergeFromRight(m.nodes, m.idx, treeIndices, i - 1)
       IN CHOOSE r \in {next(m) :
                          m \in {mergeTreePair(ns, treeIndices[i], accIdx)}} :
            TRUE

\* the level data a right fold over the per-polygon trees gives
RightFoldLevel(trees) ==
  LET levelData(root) == [Nodes |-> root.nodes, RootIndex |-> root.idx]
      k == Len(trees.indices)
  IN CHOOSE r \in {levelData(root) :
                     root \in {mergeFromRight(trees.nodes, trees.indices[k],
                                              trees.indices, k - 1)}} : TRUE

\* C20: merge order is a left fold: for k >= 2 per-polygon trees T1..Tk in
\* input order, the nodes and the root index Build returns are those of
\* merge(...merge(merge(T1, T2), T3)..., Tk).
C20_LeftFold ==
  [][builds' = builds + 1 =>
       \A trees \in {polyTrees(Polygons, nodes)} :
         Len(trees.indices) >= 2 => level' = LeftFoldLevel(trees)]_vars

\* C20, amended: merge order is a right fold: for k >= 2 per-polygon trees
\* T1..Tk in input order, the nodes and the root index Build returns are
\* those of merge(T1, merge(T2, ... merge(Tk-1, Tk)...)), the innermost merge
\* emitted first.
C20_RightFold ==
  [][builds' = builds + 1 =>
       \A trees \in {polyTrees(Polygons, nodes)} :
         Len(trees.indices) >= 2 => level' = RightFoldLevel(trees)]_vars

\* a first Build of three or more per-polygon trees whose result is not
\* that of the left fold
C20_Witness ==
  /\ builds = 1
  /\ \E trees \in {polyTrees(Polygons, <<>>)} :
        /\ Len(trees.indices) >= 3
        /\ level = RightFoldLevel(trees)
        /\ level # LeftFoldLevel(trees)

(***************************************************************************)
(* The shape of the chain of one polygon                                   *)
(***************************************************************************)
\* the indices met from idx on along back children, the last one a Leaf's or
\* the one that leaves the array
RECURSIVE BackChain(_, _, _)
BackChain(ns, idx, fuel) ==
  IF idx < 0 \/ idx >= Len(ns) \/ fuel = 0 THEN <<idx>>
  ELSE IF NodeAt(ns, idx).type = "Leaf" THEN <<idx>>
  ELSE <<idx>> \o BackChain(ns, NodeAt(ns, idx).BackIndex, fuel - 1)

\* the number of nodes of the given type among ns[first..last]
CountType(ns, first, last, type) ==
  Cardinality({k \in first..last : ns[k].type = type})

FAbs(a) == IF a[1] < 0 THEN FNeg(a) ELSE a

\* the sum of the absolute values of the coordinates of vs[i..]
RECURSIVE CoordSum(_, _)
CoordSum(vs, i) ==
  IF i > Len(vs) THEN FZero
  ELSE FAdd(FAdd(FAbs(vs[i].X), FAbs(vs[i].Y)), CoordSum(vs, i + 1))

\* a bound on the rounding error of n.p - d for the planes of vs: 2^-20 for
\* each unit of coordinate size (float32 rounds each product to 2^-24 of it)
PlaneTolerance(vs) == FMul(Dyadic(1, -20), FAdd(FromInt(1), CoordSum(vs, 1)))

\* p is within tol of the plane of the Split node
OnPlaneOf(node, p, tol) ==
  LET side == PointSide([Normal |-> Pt(node.NormalX, node.NormalY),
                         Distance |-> node.Distance], p)
  IN FLessEq(side, tol) /\ FLessEq(FNeg(tol), side)

\* the nodes ns[first..last] with the root at index root are the chain of the
\* counter-clockwise polygon vs
IsChainOf(ns, first, last, root, vs) ==
  LET n == Len(vs)
      chain == BackChain(ns, root, last - first + 1)
  IN /\ last - first + 1 = 2 * n + 1
     /\ CountType(ns, first, last, "Split") = n
     /\ CountType(ns, first, last, "Leaf") = n + 1
     /\ Len(chain) = n + 1
     /\ \A i \in 1..n :
          /\ chain[i] >= first - 1 /\ chain[i] < last
          /\ NodeAt(ns, chain[i]).type = "Split"
          /\ NodeAt(ns, chain[i]).FrontIndex >= first - 1
          /\ NodeAt(ns, chain[i]).FrontIndex < last
          /\ NodeAt(ns, NodeAt(ns, chain[i]).FrontIndex) = Leaf(FALSE)
          /\ OnPlaneOf(NodeAt(ns, chain[i]), vs[i], PlaneTolerance(vs))
          /\ OnPlaneOf(NodeAt(ns, chain[i]), Succ(vs, i), PlaneTolerance(vs))
     /\ chain[n + 1] >= first - 1 /\ chain[n + 1] < last
     /\ NodeAt(ns, chain[n + 1]) = Leaf(TRUE)
     /\ \A k \in first..last :
          ns[k] = Leaf(TRUE) => k = chain[n + 1] + 1

\* C21: per-polygon chain shape: for a convex solid polygon of n >= 3
\* vertices the builder appends exactly n Split nodes and n + 1 Leaf nodes
\* and returns the index of the Split of the first edge; every Split's front
\* child is a Leaf that is not solid, and the back children lead through the
\* edges in order to the single solid Leaf.
C21_ChainShape ==
  [][(/\ builds' = builds + 1
      /\ Len(Polygons) = 1
      /\ EmitsNodes(Polygons[1]))
     => IsChainOf(nodes', Len(nodes) + 1, Len(nodes'), level'.RootIndex,
                  ensureCCW(Polygons[1]).Vertices)]_vars

\* a second Build of one triangle: its chain lies behind the nodes of the
\* first Build
C21_Witness ==
  /\ builds = 2
  /\ Len(Polygons) = 1
  /\ EmitsNodes(Polygons[1])
  /\ Len(Polygons[1].Vertices) = 3
  /\ Len(nodes) = 14
  /\ level.RootIndex = 13
  /\ NodeAt(nodes, 13).type = "Split"

(***************************************************************************)
(* The crossing parameter of the line trace (bsp.go:525-552)               *)
(***************************************************************************)
\* the crossings LineTraceBSPNode computes on its way: for each Split where
\* it takes the crossing branch, the parameter t, the window and tMid; the
\* far side is visited only when the near side reports no hit
RECURSIVE Crossings(_, _, _, _, _, _)
Crossings(ns, nodeIndex, from, to, t0, t1) ==
  IF nodeIndex < 0 \/ nodeIndex >= Len(ns) THEN {}
  ELSE LET node == NodeAt(ns, nodeIndex)
           side(p) ==
             FSub(FAdd(FMul(node.NormalX, p.X), FMul(node.NormalY, p.Y)),
                  node.Distance)
           crossing(d0, t, tMid) ==
             LET startsFront == startsInFront(d0)
                 nearIndex == IF startsFront THEN node.FrontIndex
                              ELSE node.BackIndex
                 farIndex == IF startsFront THEN node.BackIndex
                             ELSE node.FrontIndex
             IN {[t |-> t, t0 |-> t0, tMid |-> tMid, t1 |-> t1]}
                  \cup Crossings(ns, nearIndex, from, to, t0, tMid)
                  \cup IF LineTraceBSPNode(ns, nearIndex, from, to, t0, tMid).hit
                       THEN {}
                       ELSE Crossings(ns, farIndex, from, to, tMid, t1)
           mapped(d0, t) == crossing(d0, t, FAdd(t0, FMul(t, FSub(t1, t0))))
           split(d0, d1) ==
             IF FGreater(d0, epsilon) /\ FGreater(d1, epsilon)
             THEN Crossings(ns, node.FrontIndex, from, to, t0, t1)
             ELSE IF FLessEq(d0, epsilon) /\ FLessEq(d1, epsilon)
             THEN Crossings(ns, node.BackIndex, from, to, t0, t1)
             ELSE mapped(d0, FDiv(FNeg(d0), FSub(d1, d0)))
       IN IF node.type = "Leaf" THEN {}
          ELSE split(side(segmentPoint(from, to, t0)),
                     side(segmentPoint(from, to, t1)))

FOne == FromInt(1)

\* C22: the crossing parameter stays inside the window: whenever the trace
\* takes the crossing branch at a Split, t = -d0 / (d1 - d0) lies strictly
\* between 0 and 1, so that t0 < tMid < t1 and both windows stay inside
\* [t0, t1], itself inside [0, 1].
C22_CrossingInsideWindow ==
  query.kind = "trace" =>
    \A c \in Crossings(level.Nodes, level.RootIndex, query.from, query.to,
                       FZero, FOne) :
      /\ FLess(FZero, c.t) /\ FLess(c.t, FOne)
      /\ FLess(c.t0, c.tMid) /\ FLess(c.tMid, c.t1)
      /\ FLessEq(FZero, c.t0) /\ FLessEq(c.t1, FOne)

(***************************************************************************)
(* The side a query takes at a Split                                       *)
(***************************************************************************)
\* Line.ClassifyPoint: 1 for front, -1 for back, 0 for on the line
ClassifyPoint(l, p) ==
  LET classify(side) ==
        IF FGreater(side, epsilon) THEN 1
        ELSE IF FLess(side, FNeg(epsilon)) THEN -1
        ELSE 0
  IN classify(PointSide(l, p))

LineOf(node) ==
  [Normal |-> Pt(node.NormalX, node.NormalY), Distance |-> node.Distance]

\* the Splits PointInBSP passes for the point, each with the child it
\* descends into
RECURSIVE Descents(_, _, _)
Descents(ns, nodeIndex, point) ==
  IF nodeIndex < 0 \/ nodeIndex >= Len(ns) THEN {}
  ELSE LET node == NodeAt(ns, nodeIndex)
           descend(child) ==
             {[node |-> nodeIndex, child |-> child]}
               \cup Descents(ns, child, point)
       IN IF node.type = "Leaf" THEN {}
          ELSE IF FGreater(PointSide(LineOf(node), point), FZero)
          THEN descend(node.FrontIndex)
          ELSE descend(node.BackIndex)

\* C23: on-plane points go to the back child in the point query: at every
\* Split, a point that ClassifyPoint classifies as on the split line
\* (|n.p - d| <= epsilon) descends into the Split's back child.
C23_OnPlaneGoesBack ==
  query.kind = "point" =>
    \A s \in Descents(level.Nodes, level.RootIndex, query.from) :
      ClassifyPoint(LineOf(NodeAt(level.Nodes, s.node)), query.from) = 0
        => s.child = NodeAt(level.Nodes, s.node).BackIndex

\* C24: trace and point query agree on side selection: where both ends of
\* the sub-segment have signed distance <= +epsilon the trace descends into
\* the back child, the child the point query selects for each of them; so
\* for a segment of length zero (from = to = p) the trace reports a hit
\* exactly when PointInBSP(p) is true.
C24_TraceAgreesWithPointQuery ==
  (query.kind = "trace" /\ query.from = query.to) =>
    query.trace.hit = InTree(level, query.from)

(***************************************************************************)
(* The direction of the stored normals                                     *)
(***************************************************************************)
RECURSIVE SumX(_, _)
SumX(vs, i) == IF i > Len(vs) THEN FZero ELSE FAdd(vs[i].X, SumX(vs, i + 1))

RECURSIVE SumY(_, _)
SumY(vs, i) == IF i > Len(vs) THEN FZero ELSE FAdd(vs[i].Y, SumY(vs, i + 1))

\* n.(c - v) times the number of vertices, for the centroid c of vs and the
\* normal n of the Split node
TowardCentroid(node, vs, v) ==
  LET k == FromInt(Len(vs))
  IN FAdd(FMul(node.NormalX, FSub(SumX(vs, 1), FMul(k, v.X))),
          FMul(node.NormalY, FSub(SumY(vs, 1), FMul(k, v.Y))))

\* C25: stored normals point inward: for every Split emitted for edge
\* (v[i], v[i+1]) of a counter-clockwise convex polygon the stored normal
\* points toward the interior, n.(c - v[i]) > 0 for the centroid c.
C25_NormalsPointInward ==
  (/\ builds > 0
   /\ Len(Polygons) = 1
   /\ EmitsNodes(Polygons[1]))
  => LET vs == ensureCCW(Polygons[1]).Vertices
         chain == BackChain(level.Nodes, level.RootIndex, Len(vs))
     IN \A i \in 1..Len(vs) :
          FGreater(TowardCentroid(NodeAt(level.Nodes, chain[i]), vs, vs[i]),
                   FZero)

(***************************************************************************)
(* Winding normalisation                                                   *)
(***************************************************************************)
\* C26: ensureCCW reverses the vertex order exactly when the polygon is
\* clockwise (signed area < 0) and otherwise returns the vertices unchanged;
\* its result never has negative signed area; and applying it twice gives
\* the same polygon as applying it once.  Stated for the polygons Build
\* hands to ensureCCW.
C26_EnsureCCW ==
  builds > 0 =>
    \A i \in 1..Len(Polygons) :
      EmitsNodes(Polygons[i]) =>
        /\ ensureCCW(Polygons[i]).Vertices =
             IF FLess(signedArea(Polygons[i]), FZero)
             THEN Reverse(Polygons[i].Vertices)
             ELSE Polygons[i].Vertices
        /\ ~FLess(signedArea(ensureCCW(Polygons[i])), FZero)
        /\ ensureCCW(ensureCCW(Polygons[i])) = ensureCCW(Polygons[i])

(***************************************************************************)
(* The size of a merged tree                                               *)
(***************************************************************************)
\* the sum of f(i) for i in lo..hi
RECURSIVE SumOver(_, _, _)
SumOver(f(_), lo, hi) == IF lo > hi THEN 0 ELSE f(lo) + SumOver(f, lo + 1, hi)

\* the planes of the Split nodes among ns[first..last], in array order
RECURSIVE PlanesOf(_, _, _)
PlanesOf(ns, first, last) ==
  IF first > last THEN <<>>
  ELSE (IF ns[first].type = "Split"
        THEN <<<<ns[first].NormalX, ns[first].NormalY, ns[first].Distance>>>>
        ELSE <<>>) \o PlanesOf(ns, first + 1, last)

\* C27: merged tree size: mergeTreePair(A, B) leaves the nodes of B as they
\* are and copies none of them; for A the chain of a polygon of n vertices
\* it appends exactly n Split nodes, each with the plane of the matching
\* Split of A; so Build on a fresh builder with k >= 1 convex solid polygons
\* of n_1..n_k vertices returns the sum of 2 n_i + 1 over all i plus the sum
\* of n_i over i < k nodes.
C27_MergedTreeSize ==
  (builds = 1 /\ Len(SelectSeq(Polygons, EmitsNodes)) >= 1) =>
    LET ps == SelectSeq(Polygons, EmitsNodes)
        k == Len(ps)
        n(i) == Len(ps[i].Vertices)
        chain(i) == 2 * n(i) + 1
        chains == SumOver(chain, 1, k)
        \* the chain of polygon i is ns[chainFirst(i)..chainFirst(i + 1) - 1]
        chainFirst(i) == SumOver(chain, 1, i - 1) + 1
        \* its merge is emitted after the merges of the polygons behind it
        mergeFirst(i) == chains + SumOver(n, i + 1, k - 1) + 1
    IN /\ Len(level.Nodes) = chains + SumOver(n, 1, k - 1)
       /\ SubSeq(level.Nodes, 1, chains) = polyTrees(Polygons, <<>>).nodes
       /\ \A i \in 1..(k - 1) :
            /\ \A j \in mergeFirst(i)..(mergeFirst(i) + n(i) - 1) :
                 level.Nodes[j].type = "Split"
            /\ PlanesOf(level.Nodes, mergeFirst(i), mergeFirst(i) + n(i) - 1)
                 = PlanesOf(level.Nodes, chainFirst(i), chainFirst(i + 1) - 1)

\* three squares merged on a fresh builder: 27 nodes of the chains and 8 of
\* the merges
C27_Witness ==
  /\ builds = 1
  /\ Len(SelectSeq(Polygons, EmitsNodes)) = 3
  /\ Len(level.Nodes) = 35
  /\ level.RootIndex = 34

(***************************************************************************)
(* A second Build on the same builder                                      *)
(***************************************************************************)
\* C28: Build is repeatable on one builder: a second Build with unchanged
\* Polygons returns a tree equal to the first one (same nodes, same length,
\* same root index); the nodes of the first call are not carried into the
\* second result.
C28_BuildRepeatable ==
  [][(builds >= 1 /\ builds' = builds + 1 /\ Polygons' = Polygons)
       => level' = level]_vars

(***************************************************************************)
(* The select of buildLevelsIterator                                       *)
(***************************************************************************)
\* C29: no spurious timeout in level conversion: a level whose conversion
\* succeeds before the 30 s deadline is always yielded to the consumer and
\* never reported as timed out, under every interleaving of the goroutine
\* (send on the buffered channel, then the deferred cancel) and the select.
C29_NoSpuriousTimeout ==
  [][(pc = "select" /\ matches[yamlIdx] = "ok")
       => pc' \in {"select", "yield"}]_vars

(***************************************************************************)
(* The close protocol of the editor window                                 *)
(***************************************************************************)
\* C30: the close protocol keeps unsaved work: the editor's run loop ends
\* only if there are no unsaved changes, or the user pressed Discard in the
\* close dialog, or a Save pressed in the close dialog succeeded; a Save
\* that returns an error never leads to closing while dirty is still true.
C30_CloseKeepsUnsavedWork ==
  ~windowOpen => (~dirty \/ closeChoice \in {"discard", "saved"})

====
